---- MODULE Spec2Model ----
(***************************************************************************)
(* pysb (src/pysb.py): the release resolver get_versions, the URL cache    *)
(* fetch and the 'versions install' command python_install_parser.         *)
(*                                                                         *)
(* A Python str is modelled as a sequence of one-character strings, so     *)
(* that the two regular expressions, str.replace, str.split, int() and the *)
(* substring test work on characters as they do in the source.             *)
(***************************************************************************)
EXTENDS Integers, Sequences, FiniteSets, TLC

\* Longest manifest (number of assets) drawn for a get_versions call.
MaxAssets == 2

----------------------------------------------------------------------------
(* Character strings used by the source and by the manifests.              *)

s_cpython_dash == <<"c", "p", "y", "t", "h", "o", "n", "-">>
s_tar_gz == <<".", "t", "a", "r", ".", "g", "z">>
s_native == <<"n", "a", "t", "i", "v", "e">>
s_NA == <<"N", "/", "A">>
s_stripped == <<"s", "t", "r", "i", "p", "p", "e", "d">>
s_x86_64 == <<"x", "8", "6", "_", "6", "4">>
s_amd64 == <<"a", "m", "d", "6", "4">>
s_arm64 == <<"a", "r", "m", "6", "4">>
s_aarch64 == <<"a", "a", "r", "c", "h", "6", "4">>
s_glibc == <<"g", "l", "i", "b", "c">>
s_gnu == <<"g", "n", "u">>
s_musl == <<"m", "u", "s", "l">>
s_linux == <<"l", "i", "n", "u", "x">>
s_darwin == <<"d", "a", "r", "w", "i", "n">>
s_unknown == <<"u", "n", "k", "n", "o", "w", "n">>
s_apple == <<"a", "p", "p", "l", "e">>
s_pc == <<"p", "c">>
s_date == <<"2", "0", "2", "4", "0", "1", "0", "1">>
s_v3_12_1 == <<"3", ".", "1", "2", ".", "1">>
s_v3_12_2 == <<"3", ".", "1", "2", ".", "2">>
s_v3_12_10 == <<"3", ".", "1", "2", ".", "1", "0">>
s_v3_9_18 == <<"3", ".", "9", ".", "1", "8">>
s_v3_10_2 == <<"3", ".", "1", "0", ".", "2">>
s_pgo_stripped == <<"p", "g", "o", "_", "s", "t", "r", "i", "p", "p", "e", "d">>
s_pgo_stripped_sp == <<"p", "g", "o", " ", "s", "t", "r", "i", "p", "p", "e", "d">>
s_install_only == <<"i", "n", "s", "t", "a", "l", "l", "_", "o", "n", "l", "y">>
s_install_only_stripped ==
    <<"i", "n", "s", "t", "a", "l", "l", "_", "o", "n", "l", "y", "_",
      "s", "t", "r", "i", "p", "p", "e", "d">>
s_tar_zst == <<".", "t", "a", "r", ".", "z", "s", "t">>
s_pgo == <<"p", "g", "o">>
s_python == <<"p", "y", "t", "h", "o", "n">>
s_src == <<"s", "r", "c">>
s_SHA256SUMS == <<"S", "H", "A", "2", "5", "6", "S", "U", "M", "S">>

\* Python's None, a value no string equals.
None == <<"None">>

DigitChars == <<"0", "1", "2", "3", "4", "5", "6", "7", "8", "9">>

----------------------------------------------------------------------------
(* str operations.                                                         *)

RECURSIVE Join(_, _)
\* sep.join(parts)
Join(parts, sep) ==
    IF parts = <<>> THEN <<>>
    ELSE IF Len(parts) = 1 THEN parts[1]
    ELSE parts[1] \o sep \o Join(Tail(parts), sep)

\* s.replace(a, b) for one-character a and b
Replace(s, a, b) == [i \in 1..Len(s) |-> IF s[i] = a THEN b ELSE s[i]]

\* sub in s
Contains(s, sub) ==
    \E i \in 1..(Len(s) - Len(sub) + 1) : SubSeq(s, i, i + Len(sub) - 1) = sub

RECURSIVE Split(_, _)
\* s.split(sep) for a one-character sep
Split(s, sep) ==
    LET hits == {i \in 1..Len(s) : s[i] = sep}
    IN  IF hits = {} THEN <<s>>
        ELSE LET h == CHOOSE i \in hits : \A j \in hits : i <= j
             IN  <<SubSeq(s, 1, h - 1)>> \o Split(SubSeq(s, h + 1, Len(s)), sep)

IsDigit(c) == \E d \in 1..10 : DigitChars[d] = c

NotHyphen(c) == c # "-"

\* The character classes of the two patterns: \d and [^-].
InClass(c, class) == IF class = "\\d" THEN IsDigit(c) ELSE NotHyphen(c)

DigitVal(c) == (CHOOSE d \in 1..10 : DigitChars[d] = c) - 1

RECURSIVE ToInt(_)
\* int(s) for a string of digits
ToInt(s) ==
    IF s = <<>> THEN 0
    ELSE 10 * ToInt(SubSeq(s, 1, Len(s) - 1)) + DigitVal(s[Len(s)])

RECURSIVE ListLess(_, _)
\* a < b for two lists of integers
ListLess(a, b) ==
    IF b = <<>> THEN FALSE
    ELSE IF a = <<>> THEN TRUE
    ELSE IF a[1] # b[1] THEN a[1] < b[1]
    ELSE ListLess(Tail(a), Tail(b))

----------------------------------------------------------------------------
(* The two regular expressions of get_versions.                            *)

\* Index of the first character at or after i that is not in the class;
\* Len(s) + 1 when the run reaches the end of s (a greedy X+ from i).
RunEnd(s, i, class) ==
    LET stops == {j \in i..Len(s) : ~InClass(s[j], class)}
    IN  IF stops = {} THEN Len(s) + 1
        ELSE CHOOSE j \in stops : \A k \in stops : j <= k

\* The literal lit stands at position i of s.
Lit(s, i, lit) ==
    /\ i >= 1
    /\ i + Len(lit) - 1 <= Len(s)
    /\ SubSeq(s, i, i + Len(lit) - 1) = lit

NoMatch == [matched |-> FALSE]

\* exp.match(name):
\* ^cpython-(version \d+\.\d+\.\d+)\+(date \d+)-(arch [^-]+)-(vendor [^-]+)-
\*  (os [^-]+)-(tail .*)$
exp_match(name) ==
    LET v1 == Len(s_cpython_dash) + 1
        e1 == RunEnd(name, v1, "\\d")
        e2 == RunEnd(name, e1 + 1, "\\d")
        e3 == RunEnd(name, e2 + 1, "\\d")
        d1 == e3 + 1
        de == RunEnd(name, d1, "\\d")
        a1 == de + 1
        ae == RunEnd(name, a1, "[^-]")
        n1 == ae + 1
        ne == RunEnd(name, n1, "[^-]")
        o1 == ne + 1
        oe == RunEnd(name, o1, "[^-]")
        t1 == oe + 1
        ok == /\ Lit(name, 1, s_cpython_dash)
              /\ e1 > v1 /\ Lit(name, e1, <<".">>)
              /\ e2 > e1 + 1 /\ Lit(name, e2, <<".">>)
              /\ e3 > e2 + 1 /\ Lit(name, e3, <<"+">>)
              /\ de > d1 /\ Lit(name, de, <<"-">>)
              /\ ae > a1 /\ Lit(name, ae, <<"-">>)
              /\ ne > n1 /\ Lit(name, ne, <<"-">>)
              /\ oe > o1 /\ Lit(name, oe, <<"-">>)
    IN  IF ok
        THEN [matched |-> TRUE,
              version |-> SubSeq(name, v1, e3 - 1),
              date    |-> SubSeq(name, d1, de - 1),
              arch    |-> SubSeq(name, a1, ae - 1),
              vendor  |-> SubSeq(name, n1, ne - 1),
              os      |-> SubSeq(name, o1, oe - 1),
              tail    |-> SubSeq(name, t1, Len(name))]
        ELSE NoMatch

\* Mutant of variant_exp_match: the libc group written (.+)- so that it may
\* hold hyphens.
variant_exp_match_loose_libc(tail) ==
    LET hy == {j \in 1..Len(tail) : tail[j] = "-"}
        h  == IF hy = {} THEN 0 ELSE CHOOSE j \in hy : \A k \in hy : k <= j
        ok == /\ h # 1
              /\ Len(tail) - Len(s_tar_gz) >= h + 1
              /\ Lit(tail, Len(tail) - Len(s_tar_gz) + 1, s_tar_gz)
    IN  IF ok
        THEN [matched |-> TRUE,
              libc    |-> IF h > 1 THEN SubSeq(tail, 1, h - 1) ELSE None,
              variant |-> SubSeq(tail, h + 1, Len(tail) - Len(s_tar_gz))]
        ELSE NoMatch

\* variant_exp.match(tail): ^((libc [^-]+)-)?(variant [^-]+)\.tar\.gz$
variant_exp_match(tail) ==
    LET le  == RunEnd(tail, 1, "[^-]")
        grp == le > 1 /\ Lit(tail, le, <<"-">>)
        w1  == IF grp THEN le + 1 ELSE 1
        we  == RunEnd(tail, w1, "[^-]")
        ok  == /\ we = Len(tail) + 1
               /\ Len(tail) - Len(s_tar_gz) >= w1
               /\ Lit(tail, Len(tail) - Len(s_tar_gz) + 1, s_tar_gz)
    IN  IF ok
        THEN [matched |-> TRUE,
              libc    |-> IF grp THEN SubSeq(tail, 1, le - 1) ELSE None,
              variant |-> SubSeq(tail, w1, Len(tail) - Len(s_tar_gz))]
        ELSE NoMatch

----------------------------------------------------------------------------
(* Manifests: the "assets" array of the release JSON served at RELEASES_URL. *)

\* cpython-<version>+<date>-<arch>-<vendor>-<os>-<tail>
cpython_name(version, arch, vendor, os, tail) ==
    s_cpython_dash \o version \o <<"+">> \o s_date \o <<"-">>
    \o Join(<<arch, vendor, os, tail>>, <<"-">>)

\* cpython-3.12.1+20240101-x86_64-unknown-linux-gnu-pgo_stripped.tar.gz
a_gnu ==
    [name |-> cpython_name(s_v3_12_1, s_x86_64, s_unknown, s_linux,
                           s_gnu \o <<"-">> \o s_pgo_stripped \o s_tar_gz),
     browser_download_url |-> "https://dl/gnu"]

\* cpython-3.12.1+20240101-x86_64-unknown-linux-musl-pgo_stripped.tar.gz
a_musl ==
    [name |-> cpython_name(s_v3_12_1, s_x86_64, s_unknown, s_linux,
                           s_musl \o <<"-">> \o s_pgo_stripped \o s_tar_gz),
     browser_download_url |-> "https://dl/musl"]

\* cpython-3.12.1+20240101-x86_64-pc-linux-gnu-pgo_stripped.tar.gz
a_pc ==
    [name |-> cpython_name(s_v3_12_1, s_x86_64, s_pc, s_linux,
                           s_gnu \o <<"-">> \o s_pgo_stripped \o s_tar_gz),
     browser_download_url |-> "https://dl/pc"]

\* cpython-3.9.18+20240101-x86_64-unknown-linux-gnu-pgo_stripped.tar.gz
a_old ==
    [name |-> cpython_name(s_v3_9_18, s_x86_64, s_unknown, s_linux,
                           s_gnu \o <<"-">> \o s_pgo_stripped \o s_tar_gz),
     browser_download_url |-> "https://dl/old"]

\* cpython-3.10.2+20240101-x86_64-unknown-linux-glibc-pgo stripped.tar.gz
\* (glibc as the libc token, a space in the variant)
a_glibc ==
    [name |-> cpython_name(s_v3_10_2, s_x86_64, s_unknown, s_linux,
                           s_glibc \o <<"-">> \o s_pgo_stripped_sp \o s_tar_gz),
     browser_download_url |-> "https://dl/glibc"]

\* cpython-3.12.10+20240101-aarch64-apple-darwin-install_only_stripped.tar.gz
a_darwin ==
    [name |-> cpython_name(s_v3_12_10, s_aarch64, s_apple, s_darwin,
                           s_install_only_stripped \o s_tar_gz),
     browser_download_url |-> "https://dl/darwin"]

\* cpython-3.12.2+20240101-arm64-apple-darwin-install_only.tar.gz
a_arm64 ==
    [name |-> cpython_name(s_v3_12_2, s_arm64, s_apple, s_darwin,
                           s_install_only \o s_tar_gz),
     browser_download_url |-> "https://dl/arm64"]

\* python-3.12.1-src.tar.gz
a_src ==
    [name |-> Join(<<s_python, s_v3_12_1, s_src \o s_tar_gz>>, <<"-">>),
     browser_download_url |-> "https://dl/src"]

\* SHA256SUMS
a_sums == [name |-> s_SHA256SUMS, browser_download_url |-> "https://dl/sums"]

\* cpython-3.12.1+20240101-x86_64-unknown-linux-gnu-pgo_stripped.tar.zst
a_zst ==
    [name |-> cpython_name(s_v3_12_1, s_x86_64, s_unknown, s_linux,
                           s_gnu \o <<"-">> \o s_pgo_stripped \o s_tar_zst),
     browser_download_url |-> "https://dl/zst"]

\* cpython-3.12.1+20240101-x86_64-unknown-linux-gnu-pgo-stripped.tar.gz
a_three ==
    [name |-> cpython_name(s_v3_12_1, s_x86_64, s_unknown, s_linux,
                           Join(<<s_gnu, s_pgo, s_stripped \o s_tar_gz>>, <<"-">>)),
     browser_download_url |-> "https://dl/three"]

\* Assets whose name has the shape the two patterns accept.
GoodAssets == {a_gnu, a_musl, a_pc, a_old, a_glibc, a_darwin, a_arm64}

\* Assets of a release that are not interpreter archives.
JunkAssets == {a_src, a_sums, a_zst, a_three}

AssetPool == GoodAssets \cup JunkAssets

\* Every manifest of at most MaxAssets assets of the pool.
Manifests == UNION {[1..n -> AssetPool] : n \in 0..MaxAssets}

\* Values of the machine, libc and system arguments of get_versions.
MachineArgs == {{s_x86_64}, {s_amd64}, {s_arm64}, {s_aarch64}}
LibcArgs == {{s_gnu}, {s_musl}, {s_glibc}, {<<>>}, {s_native, s_gnu, s_musl}}
SystemArgs == {{s_linux}, {s_darwin}}

Calls == [libc : LibcArgs, system : SystemArgs, machine : MachineArgs,
          stripped : BOOLEAN]

----------------------------------------------------------------------------
(* get_versions.                                                           *)

\* machine_map.get(x, x)
machine_map(x) ==
    CASE x = s_x86_64  -> s_x86_64
      [] x = s_amd64   -> s_x86_64
      [] x = s_arm64   -> s_aarch64
      [] x = s_aarch64 -> s_aarch64
      [] OTHER         -> x

\* libc_map.get(x, x)
libc_map(x) ==
    CASE x = s_glibc  -> s_gnu
      [] x = <<>>     -> None
      [] x = s_native -> None
      [] OTHER        -> x

\* system_map.get(x, x)
system_map(x) ==
    CASE x = s_linux  -> s_linux
      [] x = s_darwin -> s_darwin
      [] OTHER        -> x

\* Mutant of install_name: the vendor left out of the f-string.
install_name_no_vendor(version, arch, vendor, os, libc, variant) ==
    Join(<<version, arch, os, libc, Replace(variant, " ", "_")>>, <<"-">>)

\* The install_name f-string.
install_name(version, arch, vendor, os, libc, variant) ==
    Join(<<version, arch, vendor, os, libc, Replace(variant, " ", "_")>>,
         <<"-">>)

\* Mutant of is_stripped: equality instead of the substring test.
is_stripped_exact(variant) == variant = s_stripped

\* The 'stripped' test of the loop body on the variant descriptor.
is_stripped(variant) == Contains(variant, s_stripped)

\* x or "native"
or_native(x) == IF x = None \/ x = <<>> THEN s_native ELSE x

\* if release_info[key] is None: release_info[key] = "N/A"
or_NA(x) == IF x = None THEN s_NA ELSE x

\* match = exp.match(asset["name"]), tabulated over the names of the pool
\* (a name always gets the same match).
exp_table == [n \in {a.name : a \in AssetPool} |-> exp_match(n)]

\* One iteration of the loop over assets: <<>> when the asset is skipped by
\* a continue, <<release_info>> when it is appended. libc_on is FALSE when
\* the normalized libc set was {None} and libc was set to None.
loop_body(asset, libc_on, libc, system, machine, stripped) ==
    LET m == exp_table[asset.name]
    IN  IF ~m.matched THEN <<>>
        ELSE IF m.arch \notin machine THEN <<>>
        ELSE IF m.os \notin system THEN <<>>
        ELSE
        LET t == variant_exp_match(m.tail)
        IN  IF ~t.matched THEN <<>>
            ELSE IF libc_on /\ t.libc \notin libc THEN <<>>
            ELSE
            LET variant == Replace(t.variant, "_", " ")
            IN  IF stripped /\ ~is_stripped(variant) THEN <<>>
                ELSE IF ~stripped /\ is_stripped(variant) THEN <<>>
                ELSE
                LET lc == or_native(t.libc)
                IN  << [version |-> or_NA(m.version),
                        date    |-> or_NA(m.date),
                        arch    |-> or_NA(m.arch),
                        vendor  |-> or_NA(m.vendor),
                        os      |-> or_NA(m.os),
                        libc    |-> or_NA(lc),
                        variant |-> or_NA(variant),
                        url     |-> asset.browser_download_url,
                        install_name |->
                            install_name(or_NA(m.version), or_NA(m.arch),
                                         or_NA(m.vendor), or_NA(m.os),
                                         or_NA(lc), or_NA(variant))] >>

RECURSIVE loop(_, _, _, _, _, _)
\* for asset in assets: ... versions.append(release_info)
loop(assets_, libc_on, libc, system, machine, stripped) ==
    IF assets_ = <<>> THEN <<>>
    ELSE loop_body(Head(assets_), libc_on, libc, system, machine, stripped)
         \o loop(Tail(assets_), libc_on, libc, system, machine, stripped)

\* Mutant of sort_key: the version compared as a string (character by
\* character, '.' before every digit) instead of as a list of integers.
sort_key_str(item) ==
    [i \in 1..Len(item.version) |->
        IF IsDigit(item.version[i]) THEN DigitVal(item.version[i]) ELSE -1]

\* key=lambda item: list(map(int, item["version"].split(".")))
sort_key(item) ==
    LET parts == Split(item.version, ".")
    IN  [i \in 1..Len(parts) |-> ToInt(parts[i])]

\* item is placed after every element whose key is not greater than its own
\* (sorted() is stable and item comes last in the input).
insert(item, into) ==
    LET k == Cardinality({i \in 1..Len(into) :
                             ~ListLess(sort_key(item), sort_key(into[i]))})
    IN  SubSeq(into, 1, k) \o <<item>> \o SubSeq(into, k + 1, Len(into))

RECURSIVE sorted(_)
\* sorted(versions, key=...)
sorted(vs) ==
    IF vs = <<>> THEN <<>>
    ELSE insert(vs[Len(vs)], sorted(SubSeq(vs, 1, Len(vs) - 1)))

\* get_versions(libc, system, machine, stripped) on the manifest's assets
get_versions(assets_, libc, system, machine, stripped) ==
    LET libc_n    == {libc_map(x) : x \in libc}
        libc_on   == libc_n # {None}
        system_n  == {system_map(x) : x \in system}
        machine_n == {machine_map(x) : x \in machine}
    IN  sorted(loop(assets_, libc_on, libc_n, system_n, machine_n, stripped))

----------------------------------------------------------------------------
(* fetch and python_install_parser: constants.                            *)

\* cache=3600 * 4, the default max age of fetch, in seconds
DefaultCache == 14400

\* Number of clock advances in a behaviour.
MaxTicks == 1

\* Two invocations of 'versions install' running at once.
Procs == {"p1", "p2"}

RELEASES_URL == "https://api/releases/latest"

\* The manifest served at RELEASES_URL during the installs.
InstallManifest == <<a_src, a_gnu, a_pc, a_old, a_musl>>

\* Values of the version argument of 'versions install'.
VersionArgs == {s_v3_12_1, s_v3_9_18, s_v3_10_2}

\* The defaults of the other arguments on an x86_64 glibc Linux host:
\* platform.machine(), platform.libc_ver()[0], platform.system().lower().
HostArch == s_x86_64
HostLibc == s_glibc
HostSystem == s_linux

\* The body of a response, in the blocks shutil.copyfileobj copies.
Body == <<1, 2>>

\* The entries of python/ in an interpreter archive (directories).
ArchiveEntries == {"bin", "lib"}

NoVer == [install_name |-> <<>>, url |-> ""]

NoStat == [exists |-> FALSE, mtime |-> 0, now |-> 0]

----------------------------------------------------------------------------
VARIABLES
    assets,        \* release["assets"] of the manifest at RELEASES_URL
    call,          \* the arguments of the get_versions call under way
    returned,      \* the list get_versions returned
    rstate,        \* "called" until get_versions returns, then "returned"
    now,           \* time.time()
    ticks,         \* clock advances so far
    cache,         \* CACHE_PATH/cache: url of each cache file -> mtime, data
    versions_path, \* VERSIONS_PATH: install_name of each directory -> content
    proc           \* each invocation: position and local variables

vars == <<assets, call, returned, rstate, now, ticks, cache, versions_path,
          proc>>

resolve_vars == <<call, returned, rstate>>

install_vars == <<now, ticks, cache, versions_path, proc>>

\* An invocation before python_install_parser is entered.
IdleProc ==
    [pc      |-> "idle",
     rc      |-> -1,         \* the return code of main, -1 while running
     version |-> <<>>,       \* args.version
     url     |-> "",         \* fetch: url
     ret     |-> "",         \* fetch: where it returns to
     stat    |-> NoStat,     \* fetch: what line 294 saw
     got     |-> FALSE,      \* fetch: urlopen was called
     off     |-> 0,          \* fetch: blocks copied so far
     ver     |-> NoVer,      \* ver
     extract |-> {},         \* entries left in extract_path/python
     log     |-> "",         \* the error it logged
     gets    |-> {},         \* urls this invocation requested from the network
     made    |-> {},         \* install directories it called mkdir on
     wrote   |-> {}]         \* install directories it moved or wrote files into

InitInstallVars ==
    /\ now = 0
    /\ ticks = 0
    /\ cache = <<>>
    /\ versions_path = <<>>
    /\ proc = [p \in Procs |-> IdleProc]

InitResolve ==
    /\ assets \in Manifests
    /\ call \in Calls
    /\ returned = <<>>
    /\ rstate = "called"
    /\ InitInstallVars

\* get_versions runs to its return statement.
GetVersionsReturn ==
    /\ rstate = "called"
    /\ returned' = get_versions(assets, call.libc, call.system, call.machine,
                                call.stripped)
    /\ rstate' = "returned"
    /\ UNCHANGED <<assets, call>>
    /\ UNCHANGED install_vars

NextResolve == GetVersionsReturn

SpecResolve == InitResolve /\ [][NextResolve]_vars

----------------------------------------------------------------------------
(* fetch and python_install_parser, one step per statement that reads or   *)
(* writes the file system or the network.                                  *)

\* f with key k set to v (a file or directory created or replaced).
Put(f, k, v) == [x \in DOMAIN f \cup {k} |-> IF x = k THEN v ELSE f[x]]

\* The data of a file after writing one block at block offset off.
WriteAt(data, off, block) ==
    [i \in 1..(IF Len(data) > off + 1 THEN Len(data) ELSE off + 1) |->
        IF i = off + 1 THEN block
        ELSE IF i <= Len(data) THEN data[i]
        ELSE 0]

\* Mutant of is_fresh: >= instead of >.
is_fresh_inclusive(exists, mtime, time, max_age) ==
    exists /\ mtime >= time - max_age

\* cache_path.exists() and cache_path.stat().st_mtime > (time.time() - cache)
is_fresh(exists, mtime, time, max_age) ==
    exists /\ mtime > time - max_age

\* python_install_parser returns code: its locals are gone; what it asked of
\* the network and which directories it wrote into is kept as history.
Return(pr, code, msg) ==
    [IdleProc EXCEPT !.pc = "done", !.rc = code, !.log = msg,
                     !.version = pr.version, !.gets = pr.gets,
                     !.made = pr.made, !.wrote = pr.wrote]

\* An exception reaches main, which logs it and returns 1.
Raise(pr) == Return(pr, 1, "Error")

\* Mutant of select: more than one match is not an error, the first is used.
select_first(versions) ==
    IF Len(versions) = 0 THEN "none" ELSE "one"

\* if not versions: return 1; if len(versions) > 1: return 1; ver = versions[0]
select(versions) ==
    IF Len(versions) = 0 THEN "none"
    ELSE IF Len(versions) > 1 THEN "multiple"
    ELSE "one"

\* The list python_install_parser filters out of get_versions.
install_versions(version) ==
    LET Wanted(item) == item.version = version
    IN  SelectSeq(get_versions(assets, {HostLibc}, {HostSystem}, {HostArch},
                               TRUE),
                  Wanted)

\* install_path.exists(), (VERSIONS_PATH / install_name).is_dir()
is_dir(name) == name \in DOMAIN versions_path

\* The cache file of a url is complete: it holds one whole response.
Complete(data) == data = Body

\* 'versions install <version>' is run: python_install_parser calls
\* get_versions, which calls fetch(RELEASES_URL).
Start(p, version) ==
    /\ proc[p].pc = "idle"
    /\ proc' = [proc EXCEPT ![p] =
                   [@ EXCEPT !.pc = "fetch_stat", !.version = version,
                             !.url = RELEASES_URL, !.ret = "gv_load",
                             !.stat = NoStat, !.got = FALSE, !.off = 0]]
    /\ UNCHANGED <<assets, resolve_vars, now, ticks, cache, versions_path>>

\* fetch, line 294: the freshness test.
FetchStat(p) ==
    /\ proc[p].pc = "fetch_stat"
    /\ LET url    == proc[p].url
           exists == url \in DOMAIN cache
           mtime  == IF exists THEN cache[url].mtime ELSE 0
           seen   == [exists |-> exists, mtime |-> mtime, now |-> now]
       IN  proc' = [proc EXCEPT ![p] =
               [@ EXCEPT !.stat = seen,
                         !.pc = IF is_fresh(exists, mtime, now, DefaultCache)
                                THEN proc[p].ret
                                ELSE "fetch_urlopen"]]
    /\ UNCHANGED <<assets, resolve_vars, now, ticks, cache, versions_path>>

\* fetch, line 296: urlopen answers.
UrlOpen(p) ==
    /\ proc[p].pc = "fetch_urlopen"
    /\ proc' = [proc EXCEPT ![p] =
                   [@ EXCEPT !.pc = "fetch_open_wb", !.got = TRUE,
                             !.gets = @ \cup {proc[p].url}]]
    /\ UNCHANGED <<assets, resolve_vars, now, ticks, cache, versions_path>>

\* fetch, line 296: urlopen raises.
UrlOpenFails(p) ==
    /\ proc[p].pc = "fetch_urlopen"
    /\ proc' = [proc EXCEPT ![p] =
                   Raise([@ EXCEPT !.got = TRUE,
                                   !.gets = @ \cup {proc[p].url}])]
    /\ UNCHANGED <<assets, resolve_vars, now, ticks, cache, versions_path>>

\* fetch, line 297: cache_path.open("wb") creates or truncates the file.
OpenWb(p) ==
    /\ proc[p].pc = "fetch_open_wb"
    /\ cache' = Put(cache, proc[p].url, [mtime |-> now, data |-> <<>>])
    /\ proc' = [proc EXCEPT ![p] = [@ EXCEPT !.pc = "fetch_copy", !.off = 0]]
    /\ UNCHANGED <<assets, resolve_vars, now, ticks, versions_path>>

\* fetch, line 298: copyfileobj reads one block and writes it at the
\* position of this writer; after the last block fetch returns the file.
CopyBlock(p) ==
    /\ proc[p].pc = "fetch_copy"
    /\ proc[p].off < Len(Body)
    /\ LET url == proc[p].url
           off == proc[p].off
       IN  /\ cache' = Put(cache, url,
                           [mtime |-> now,
                            data  |-> WriteAt(cache[url].data, off,
                                              Body[off + 1])])
           /\ proc' = [proc EXCEPT ![p] =
                  IF off + 1 = Len(Body)
                  THEN [@ EXCEPT !.off = 0, !.pc = proc[p].ret]
                  ELSE [@ EXCEPT !.off = off + 1]]
    /\ UNCHANGED <<assets, resolve_vars, now, ticks, versions_path>>

\* fetch, line 298: the read of the response raises; the with block closes
\* the file as it is.
CopyFails(p) ==
    /\ proc[p].pc = "fetch_copy"
    /\ proc[p].off < Len(Body)
    /\ proc' = [proc EXCEPT ![p] = Raise(@)]
    /\ UNCHANGED <<assets, resolve_vars, now, ticks, cache, versions_path>>

\* get_versions, line 308, and python_install_parser, lines 420-439:
\* json.load reads the manifest file; the versions are filtered and one is
\* selected.
GvLoad(p) ==
    /\ proc[p].pc = "gv_load"
    /\ IF ~Complete(cache[RELEASES_URL].data)
       THEN proc' = [proc EXCEPT ![p] = Raise(@)]
       ELSE LET versions == install_versions(proc[p].version)
            IN  IF select(versions) = "one"
                THEN proc' = [proc EXCEPT ![p] =
                         [@ EXCEPT !.ver = versions[1], !.pc = "exists",
                                   !.stat = NoStat, !.got = FALSE]]
                ELSE proc' = [proc EXCEPT ![p] =
                         Return(@, 1,
                                IF select(versions) = "none"
                                THEN "No versions found"
                                ELSE "Multiple versions found")]
    /\ UNCHANGED <<assets, resolve_vars, now, ticks, cache, versions_path>>

\* python_install_parser, lines 442-444: if install_path.exists(): return 1
ExistsCheck(p) ==
    /\ proc[p].pc = "exists"
    /\ proc' = [proc EXCEPT ![p] =
                   IF is_dir(proc[p].ver.install_name)
                   THEN Return(@, 1, "already installed")
                   ELSE [@ EXCEPT !.pc = "mkdir"]]
    /\ UNCHANGED <<assets, resolve_vars, now, ticks, cache, versions_path>>

\* python_install_parser, lines 446-453: install_path.mkdir(parents=True,
\* exist_ok=True), then fetch(versions[0]["url"]) is called.
Mkdir(p) ==
    /\ proc[p].pc = "mkdir"
    /\ LET name == proc[p].ver.install_name
       IN  versions_path' =
               IF is_dir(name) THEN versions_path
               ELSE Put(versions_path, name,
                        [entries |-> {}, version_json |-> FALSE])
    /\ proc' = [proc EXCEPT ![p] =
                   [@ EXCEPT !.pc = "fetch_stat", !.url = proc[p].ver.url,
                             !.ret = "extract", !.stat = NoStat,
                             !.got = FALSE, !.off = 0,
                             !.made = @ \cup {proc[p].ver.install_name}]]
    /\ UNCHANGED <<assets, resolve_vars, now, ticks, cache>>

\* python_install_parser, lines 453-455: tarfile reads the cache file and
\* extracts it; a file that is not a whole archive raises.
Extract(p) ==
    /\ proc[p].pc = "extract"
    /\ proc' = [proc EXCEPT ![p] =
                   IF Complete(cache[proc[p].url].data)
                   THEN [@ EXCEPT !.pc = "move", !.extract = ArchiveEntries,
                                  !.stat = NoStat, !.got = FALSE]
                   ELSE Raise(@)]
    /\ UNCHANGED <<assets, resolve_vars, now, ticks, cache, versions_path>>

\* python_install_parser, lines 458-459: shutil.move(path, install_path /
\* path.name). A destination that is a directory receives path inside it,
\* and shutil.move raises when that exists too.
Move(p, entry) ==
    /\ proc[p].pc = "move"
    /\ entry \in proc[p].extract
    /\ LET name == proc[p].ver.install_name
           dir  == versions_path[name]
           dst  == IF <<entry>> \in dir.entries THEN <<entry, entry>>
                   ELSE <<entry>>
           left == proc[p].extract \ {entry}
       IN  IF dst \in dir.entries
           THEN /\ proc' = [proc EXCEPT ![p] = Raise(@)]
                /\ UNCHANGED versions_path
           ELSE /\ versions_path' =
                       Put(versions_path, name,
                           [dir EXCEPT !.entries = @ \cup {dst}])
                /\ proc' = [proc EXCEPT ![p] =
                       [@ EXCEPT !.extract = left,
                                 !.wrote = @ \cup {name},
                                 !.pc = IF left = {} THEN "write_json"
                                        ELSE "move"]]
    /\ UNCHANGED <<assets, resolve_vars, now, ticks, cache>>

\* python_install_parser, lines 461-465: version.json is written; return 0
WriteJson(p) ==
    /\ proc[p].pc = "write_json"
    /\ LET name == proc[p].ver.install_name
       IN  versions_path' =
               Put(versions_path, name,
                   [versions_path[name] EXCEPT !.version_json = TRUE])
    /\ proc' = [proc EXCEPT ![p] =
                   Return([@ EXCEPT !.wrote = @ \cup {proc[p].ver.install_name}],
                          0, "")]
    /\ UNCHANGED <<assets, resolve_vars, now, ticks, cache>>

\* Time passes: the cache window, or one second less.
Tick(d) ==
    /\ ticks < MaxTicks
    /\ now' = now + d
    /\ ticks' = ticks + 1
    /\ UNCHANGED <<assets, resolve_vars, cache, versions_path, proc>>

Init ==
    /\ assets = InstallManifest
    /\ call = [libc |-> {HostLibc}, system |-> {HostSystem},
               machine |-> {HostArch}, stripped |-> TRUE]
    /\ returned = <<>>
    /\ rstate = "none"
    /\ InitInstallVars

Next ==
    \/ \E p \in Procs, version \in VersionArgs : Start(p, version)
    \/ \E p \in Procs : FetchStat(p)
    \/ \E p \in Procs : UrlOpen(p)
    \/ \E p \in Procs : UrlOpenFails(p)
    \/ \E p \in Procs : OpenWb(p)
    \/ \E p \in Procs : CopyBlock(p)
    \/ \E p \in Procs : CopyFails(p)
    \/ \E p \in Procs : GvLoad(p)
    \/ \E p \in Procs : ExistsCheck(p)
    \/ \E p \in Procs : Mkdir(p)
    \/ \E p \in Procs : Extract(p)
    \/ \E p \in Procs, entry \in ArchiveEntries : Move(p, entry)
    \/ \E p \in Procs : WriteJson(p)
    \/ \E d \in {DefaultCache - 1, DefaultCache} : Tick(d)

Spec == Init /\ [][Next]_vars

----------------------------------------------------------------------------
(* Properties of get_versions, checked under SpecResolve.                  *)

Returned == rstate = "returned"

\* The asset's name matches both patterns.
Parseable(a) ==
    /\ exp_table[a.name].matched
    /\ variant_exp_match(exp_table[a.name].tail).matched

\* The libc and variant groups of a parseable asset's tail.
TailOf(a) == variant_exp_match(exp_table[a.name].tail)

\* Number of positions of the sequence s that satisfy Test.
Count(s, Test(_)) == Cardinality({i \in 1..Len(s) : Test(s[i])})

UrlsOf(as) == {a.browser_download_url : a \in as}

\* The filter of the claim C5, stated on one asset: arch in the normalized
\* arch filter, os in the os filter, libc (None when the name has no libc
\* segment) in the normalized libc filter unless that filter is {None}, and
\* 'stripped' in the variant exactly when wantStripped.
Passes(a, c) ==
    /\ Parseable(a)
    /\ exp_table[a.name].arch \in {machine_map(x) : x \in c.machine}
    /\ exp_table[a.name].os \in c.system
    /\ \/ {libc_map(x) : x \in c.libc} = {None}
       \/ TailOf(a).libc \in {libc_map(x) : x \in c.libc}
    /\ Contains(TailOf(a).variant, s_stripped) <=> c.stripped

\* C5: get_versions returns exactly the assets of the manifest that parse
\* and pass the arch, os, libc and stripped filters, each as often as the
\* manifest lists it: none is dropped, none is added. Of a gnu and a musl
\* build that differ in nothing else, libc={musl} returns the musl build.
C5_FilterCorrect ==
    Returned =>
        /\ \A a \in AssetPool :
              LET InResult(r) == r.url = a.browser_download_url
                  IsA(x) == x = a
              IN  Count(returned, InResult)
                    = IF Passes(a, call) THEN Count(assets, IsA) ELSE 0
        /\ (/\ assets = <<a_gnu, a_musl>>
            /\ call = [libc |-> {s_musl}, system |-> {s_linux},
                       machine |-> {s_x86_64}, stripped |-> TRUE])
           => /\ Len(returned) = 1
              /\ returned[1].url = a_musl.browser_download_url
              /\ returned[1].libc = s_musl

\* C5 witness: the gnu/musl pair was filtered by libc={musl} and one build
\* was returned.
C5_Witness ==
    /\ Returned
    /\ assets = <<a_gnu, a_musl>>
    /\ call.libc = {s_musl}
    /\ Len(returned) = 1

\* C6: the arch of a parsed asset is normalized like the filter, so an asset
\* whose arch token is a synonym of a filter token (and that passes the
\* other filters) is returned, carrying the canonical token; likewise libc.
C6_SynonymsBothSides ==
    Returned =>
        \A i \in 1..Len(assets) :
            LET a == assets[i]
            IN  (/\ Parseable(a)
                 /\ machine_map(exp_table[a.name].arch)
                       \in {machine_map(x) : x \in call.machine}
                 /\ exp_table[a.name].os \in call.system
                 /\ \/ {libc_map(x) : x \in call.libc} = {None}
                    \/ libc_map(TailOf(a).libc)
                          \in {libc_map(x) : x \in call.libc}
                 /\ Contains(TailOf(a).variant, s_stripped) <=> call.stripped)
                => \E k \in 1..Len(returned) :
                      /\ returned[k].url = a.browser_download_url
                      /\ returned[k].arch = machine_map(exp_table[a.name].arch)

\* Every variant get_versions can return for an asset of the pool.
PoolVariants ==
    UNION {{get_versions(<<a>>, c.libc, c.system, c.machine, c.stripped)[k] :
               k \in 1..Len(get_versions(<<a>>, c.libc, c.system, c.machine,
                                         c.stripped))} :
           a \in GoodAssets, c \in Calls}

SameFields(v, w) ==
    /\ v.version = w.version /\ v.arch = w.arch /\ v.vendor = w.vendor
    /\ v.os = w.os /\ v.libc = w.libc /\ v.variant = w.variant

\* C8: two variants with the same install_name agree on version, arch,
\* vendor, os, libc and variant descriptor, whether they come from the same
\* manifest or not.
C8_InstallNameIsKey ==
    Returned =>
        \A k \in 1..Len(returned) :
            /\ \A w \in PoolVariants :
                  returned[k].install_name = w.install_name
                     => SameFields(returned[k], w)
            /\ \A j \in 1..Len(returned) :
                  returned[k].install_name = returned[j].install_name
                     => SameFields(returned[k], returned[j])

\* C8 witness: two builds that differ in the vendor only were returned, with
\* different install names.
C8_Witness ==
    /\ Returned
    /\ Len(returned) = 2
    /\ returned[1].vendor # returned[2].vendor
    /\ returned[1].version = returned[2].version
    /\ returned[1].libc = returned[2].libc
    /\ returned[1].variant = returned[2].variant
    /\ returned[1].install_name # returned[2].install_name

\* (major, minor, patch) of the versions of the pool, as numbers.
VersionTuple(v) ==
    CASE v = s_v3_12_1  -> <<3, 12, 1>>
      [] v = s_v3_12_2  -> <<3, 12, 2>>
      [] v = s_v3_12_10 -> <<3, 12, 10>>
      [] v = s_v3_9_18  -> <<3, 9, 18>>
      [] v = s_v3_10_2  -> <<3, 10, 2>>

TupleLeq(x, y) ==
    \/ x[1] < y[1]
    \/ x[1] = y[1] /\ x[2] < y[2]
    \/ x[1] = y[1] /\ x[2] = y[2] /\ x[3] <= y[3]

\* The list the loop of get_versions builds, before it is sorted.
Unsorted ==
    loop(assets, {libc_map(x) : x \in call.libc} # {None},
         {libc_map(x) : x \in call.libc}, {system_map(x) : x \in call.system},
         {machine_map(x) : x \in call.machine}, call.stripped)

\* C9: the returned list ascends by (major, minor, patch) compared as
\* numbers, is a permutation of the variants that passed the filter, and
\* keeps variants of one version in manifest order.
C9_Ordering ==
    Returned =>
        /\ \A i, j \in 1..Len(returned) :
              i < j => TupleLeq(VersionTuple(returned[i].version),
                                VersionTuple(returned[j].version))
        /\ Len(returned) = Len(Unsorted)
        /\ \A k \in 1..Len(Unsorted) :
              LET Same(x) == x = Unsorted[k]
              IN  Count(returned, Same) = Count(Unsorted, Same)
        /\ \A k \in 1..Len(returned) :
              LET SameVersion(x) == x.version = returned[k].version
              IN  SelectSeq(returned, SameVersion)
                    = SelectSeq(Unsorted, SameVersion)

\* C9 witness: 3.12.1 was listed before 3.9.18 and returned after it.
C9_Witness ==
    /\ Returned
    /\ assets = <<a_gnu, a_old>>
    /\ Len(returned) = 2
    /\ returned[1].version = s_v3_9_18
    /\ returned[2].version = s_v3_12_1

AllDigits(s) == s # <<>> /\ \A i \in 1..Len(s) : IsDigit(s[i])

Segment(s) == s # <<>> /\ \A i \in 1..Len(s) : s[i] # "-"

\* name is cpython-<version>+<date>-<arch>-<vendor>-<os>-[<libc>-]<variant>.tar.gz
\* for the fields of r, up to the underscores of the variant.
HasShape(name, r) ==
    /\ Len(Split(r.version, ".")) = 3
    /\ \A i \in 1..3 : AllDigits(Split(r.version, ".")[i])
    /\ AllDigits(r.date)
    /\ Segment(r.arch) /\ Segment(r.vendor) /\ Segment(r.os)
    /\ Segment(r.libc) /\ Segment(r.variant)
    /\ \A i \in 1..Len(r.variant) : r.variant[i] # "_"
    /\ \E libc_part \in {r.libc \o <<"-">>}
                          \cup (IF r.libc = s_native THEN {<<>>} ELSE {}) :
          Replace(name, "_", " ")
            = Replace(s_cpython_dash \o r.version \o <<"+">> \o r.date
                      \o <<"-">> \o r.arch \o <<"-">> \o r.vendor \o <<"-">>
                      \o r.os \o <<"-">> \o libc_part \o r.variant
                      \o s_tar_gz, "_", " ")

RECURSIVE Without(_, _)
\* The manifest as without its assets in drop.
Without(as, drop) ==
    IF as = <<>> THEN <<>>
    ELSE (IF Head(as) \in drop THEN <<>> ELSE <<Head(as)>>)
         \o Without(Tail(as), drop)

\* C10: only names of the shape cpython-<v>+<date>-<arch>-<vendor>-<os>-
\* [<libc>-]<variant>.tar.gz yield a variant; the other assets never appear
\* in the result and do not change it; a name without a libc segment gets
\* libc 'native', and the variant has spaces for underscores.
C10_ParserRejection ==
    Returned =>
        /\ \A k \in 1..Len(returned) :
              /\ returned[k].url \notin UrlsOf(JunkAssets)
              /\ \E a \in AssetPool :
                    /\ a.browser_download_url = returned[k].url
                    /\ HasShape(a.name, returned[k])
        /\ returned = get_versions(Without(assets, JunkAssets), call.libc,
                                   call.system, call.machine, call.stripped)
        /\ \A k \in 1..Len(returned) :
              /\ returned[k].url = a_gnu.browser_download_url
                 => /\ returned[k].version = s_v3_12_1
                    /\ returned[k].arch = s_x86_64
                    /\ returned[k].os = s_linux
                    /\ returned[k].libc = s_gnu
                    /\ returned[k].variant = s_pgo_stripped_sp
                    /\ call.stripped
              /\ returned[k].url = a_darwin.browser_download_url
                 => returned[k].libc = s_native

\* C10 witness: a manifest of one rejected and one accepted asset returned
\* the accepted one.
C10_Witness ==
    /\ Returned
    /\ \E j \in JunkAssets : assets = <<j, a_gnu>>
    /\ Len(returned) = 1
    /\ returned[1].url = a_gnu.browser_download_url

----------------------------------------------------------------------------
(* Properties of fetch and 'versions install', checked under Spec.         *)

\* The install directory holds every entry of the archive and version.json.
Populated(dir) ==
    /\ \A e \in ArchiveEntries : <<e>> \in dir.entries
    /\ dir.version_json

\* Some invocation is between its mkdir and its return for this directory.
Installing(name) == \E p \in Procs : proc[p].ver.install_name = name

\* C1: every cache file that exists holds the whole of one response, also
\* while a fetch rewrites it and after a download that failed part-way.
C1_CacheFileIntegrity ==
    \A url \in DOMAIN cache : Complete(cache[url].data)

\* Every install_name 'versions list' can look up for the manifest.
InstallNames == {v.install_name : v \in PoolVariants}

\* C2: an install directory that exists (and is listed as installed) while
\* no install is working on it, so after an install that failed too, holds
\* all entries of the archive and version.json.
C2_InstallDirComplete ==
    \A name \in InstallNames :
        (is_dir(name) /\ ~Installing(name))
           => Populated(versions_path[name])

\* C3: of two invocations installing the same variant at most one writes
\* into the install directory.
C3_OneInstaller ==
    \A p, q \in Procs : p # q => proc[p].wrote \cap proc[q].wrote = {}

\* What line 294 saw makes the entry stale: no file, or mtime <= now - maxAge.
Stale(stat) == ~stat.exists \/ stat.mtime <= stat.now - DefaultCache

\* C4: fetch requests the url from the network exactly when the cache file
\* is absent or its mtime is <= now - maxAge; an entry that is not stale is
\* returned as it is.
C4_Freshness ==
    \A p \in Procs :
        /\ proc[p].pc \in {"fetch_urlopen", "fetch_open_wb", "fetch_copy"}
              => Stale(proc[p].stat)
        /\ proc[p].pc \in {"gv_load", "extract"}
              => /\ proc[p].got <=> Stale(proc[p].stat)
                 /\ proc[p].url \in DOMAIN cache
                 /\ proc[p].got <=> proc[p].url \in proc[p].gets

\* C4 witness: a fetch found the file with mtime exactly now - maxAge,
\* requested the url again and returned.
C4_Witness ==
    \E p \in Procs :
        /\ proc[p].pc \in {"gv_load", "extract"}
        /\ proc[p].stat.exists
        /\ proc[p].stat.mtime = proc[p].stat.now - DefaultCache
        /\ proc[p].got

\* The arguments 'versions install' passes to get_versions on this host.
HostCall ==
    [libc |-> {HostLibc}, system |-> {HostSystem}, machine |-> {HostArch},
     stripped |-> TRUE]

\* The assets of the manifest that pass the filters and have this version.
Matches(version) ==
    {i \in 1..Len(assets) :
        /\ Passes(assets[i], HostCall)
        /\ exp_table[assets[i].name].version = version}

\* C7: an invocation gets past the selection, and returns 0, only when
\* exactly one variant has the requested version; with none or several it
\* returns 1 with the matching error, has requested nothing but the
\* manifest, and has made and written no install directory.
C7_InstallSelection ==
    \A p \in Procs :
        /\ proc[p].ver # NoVer => Cardinality(Matches(proc[p].version)) = 1
        /\ proc[p].rc = 0 => Cardinality(Matches(proc[p].version)) = 1
        /\ (proc[p].pc = "done" /\ Cardinality(Matches(proc[p].version)) # 1)
              => /\ proc[p].rc = 1
                 /\ proc[p].gets \subseteq {RELEASES_URL}
                 /\ proc[p].made = {}
                 /\ proc[p].wrote = {}
                 /\ proc[p].log \in {"Error", "No versions found",
                                     "Multiple versions found"}
        /\ proc[p].log = "No versions found"
              => Matches(proc[p].version) = {}
        /\ proc[p].log = "Multiple versions found"
              => Cardinality(Matches(proc[p].version)) > 1

\* C7 witness: 3.12.1 matched the unknown and the pc vendor builds, and the
\* invocation returned 1 with 'Multiple versions found'.
C7_Witness ==
    \E p \in Procs :
        /\ proc[p].pc = "done"
        /\ proc[p].rc = 1
        /\ proc[p].log = "Multiple versions found"
        /\ proc[p].version = s_v3_12_1
        /\ \E i, j \in Matches(s_v3_12_1) :
              exp_table[assets[i].name].vendor
                 # exp_table[assets[j].name].vendor

====
